---- MODULE Spec2Model ----
(***************************************************************************)
(* TokenAuthenticationService (auth-token.service.ts): a holder of a      *)
(* bearer token whose only non-trivial behaviour is a self-rescheduling    *)
(* refresh loop: a one-shot timer fires, refreshToken() issues a GET, and  *)
(* the promise chain .then(...).catch(...) stores the new token and arms   *)
(* the next timer.                                                         *)
(*                                                                         *)
(* The browser is modelled as two queues: `timers` (callbacks handed to    *)
(* setTimeout and not yet run) and `requests` (GETs issued and not yet     *)
(* completed).  Neither is assumed to hold at most one element.            *)
(***************************************************************************)
EXTENDS Integers, Sequences, FiniteSets, TLC

VARIABLES
    config,             \* the ConfigService the service was constructed with
    accessToken,        \* this.accessToken
    authenticated,      \* current value of the BehaviorSubject _authenticated
    authenticatedUser,  \* current value of the BehaviorSubject _authenticatedUser
    timers,             \* pending setTimeout callbacks, in arming order
    requests,           \* token GETs in flight, in issue order
    docBase,            \* document.getElementsByTagName("base")[0].href
    href,               \* window.location.href
    lastCall,           \* the last public operation called and what it gave back
    fired,              \* history: timer callbacks run so far
    issued,             \* history: token GETs issued so far
    fails,              \* history: consecutive failed refresh attempts
    lastPeriod,         \* history: the refresh period seen most recently
    lastEvent           \* history: how the last completed refresh ended

vars == <<config, accessToken, authenticated, authenticatedUser, timers, requests,
          docBase, href, lastCall, fired, issued, fails, lastPeriod, lastEvent>>

(***************************************************************************)
(* Bounds and program constants                                            *)
(***************************************************************************)
MaxFired == 4

RetrySeconds == 30

MsPerSecond == 1000

(***************************************************************************)
(* JavaScript values: a number or undefined                                *)
(***************************************************************************)
Undefined == [t |-> "undefined", v |-> 0]

Num(n) == [t |-> "number", v |-> n]

\* mutant: `if (refreshPeriod != null)`, which takes 0 for a period
TruthyIsNumber(x) == x.t = "number"

\* ToBoolean, as applied by `if (refreshPeriod)`: undefined and 0 are falsy,
\* every other number (negative ones included) is truthy.
Truthy(x) == x.t = "number" /\ x.v # 0

\* refreshPeriod * 1000
PeriodMs(p) == p.v * MsPerSecond

(***************************************************************************)
(* Input domains                                                           *)
(***************************************************************************)
Periods == {Undefined, Num(0), Num(-1), Num(30), Num(60)}

InitialToken == "abc"

ResponseTokens == {"xyz", "t2"}

NullBody == [isNull |-> TRUE, token |-> "", tokenRefreshPeriod |-> Undefined]

Bodies ==
    {NullBody} \cup
    { [isNull |-> FALSE, token |-> t, tokenRefreshPeriod |-> p] :
        t \in ResponseTokens, p \in Periods }

\* status of an HttpErrorResponse: 0 (no response at all) or an HTTP error code
ErrorStatuses == {0, 404, 500}

\* the TypeError raised by `auth.token` on a null body has no status property
TypeError == [status |-> Undefined]

HttpError(status) == [status |-> Num(status)]

Configs ==
    { [authToken |-> InitialToken, user |-> "alice", authRefreshPeriod |-> p,
       logoutUrl |-> "/logout"] : p \in Periods }

\* strings that the code inspects character by character are sequences of characters
Origin == <<"h", ":", "o">>

Bases == { <<"/", "s", "/">>, <<"h", ":", "x", "/">> }

TokenSegment == <<"t", "o", "k", "e", "n">>

StartPage == "/studio"

\* header maps a caller may hand to injectAuthHeaders
NoHeaders == [k \in {} |-> ""]

HeaderMaps ==
    { NoHeaders,
      [k \in {"Accept"} |-> "application/json"],
      [k \in {"Accept", "Authorization"} |->
          IF k = "Accept" THEN "application/json" ELSE "bearer stale"] }

LoginUsers == {"alice", "mallory"}

LoginCredentials == {"secret", ""}

\* `given` is the header map as handed in, `headers` the same map after the call
NoCall ==
    [op |-> "none", arg |-> "", threw |-> FALSE, value |-> "", emitted |-> FALSE,
     given |-> NoHeaders, headers |-> NoHeaders]

(***************************************************************************)
(* The browser's timer queue                                               *)
(***************************************************************************)
\* setTimeout(callback, delay) called at `site`; every callback is () => this.refreshToken()
setTimeout(q, site, delay) == Append(q, [by |-> site, delay |-> delay])

RemoveAt(q, i) == [j \in 1..(Len(q) - 1) |-> IF j < i THEN q[j] ELSE q[j + 1]]

(***************************************************************************)
(* The service                                                             *)
(***************************************************************************)
\* the fields of the service together with the timers it has armed
Service ==
    [accessToken |-> accessToken, authenticated |-> authenticated,
     authenticatedUser |-> authenticatedUser, timers |-> timers]

\* mutant: the delay handed to setTimeout in seconds, `* 1000` forgotten
ConstructorSeconds(cfg) ==
    LET s == [accessToken |-> cfg.authToken,
              authenticated |-> TRUE,
              authenticatedUser |-> cfg.user,
              timers |-> <<>>]
        refreshPeriod == cfg.authRefreshPeriod
    IN  IF refreshPeriod.t = "number" /\ refreshPeriod.v # 0
        THEN [s EXCEPT !.timers = Append(@, [by |-> "constructor", delay |-> refreshPeriod.v])]
        ELSE s

\* constructor(http, config)
Constructor(cfg) ==
    LET s == [accessToken |-> cfg.authToken,
              authenticated |-> TRUE,
              authenticatedUser |-> cfg.user,
              timers |-> <<>>]
        refreshPeriod == cfg.authRefreshPeriod
    IN  IF Truthy(refreshPeriod)
        THEN [s EXCEPT !.timers = setTimeout(@, "constructor", PeriodMs(refreshPeriod))]
        ELSE s

\* String.prototype.indexOf for a single character: 0-based position, -1 when absent
IndexOf(s, c) ==
    IF \E i \in 1..Len(s) : s[i] = c
    THEN (CHOOSE i \in 1..Len(s) : s[i] = c /\ \A j \in 1..(i - 1) : s[j] # c) - 1
    ELSE -1

\* the url refreshToken() computes from the document base and location.origin
RefreshUrl(base, origin) ==
    LET b == IF IndexOf(base, "/") = 0 THEN origin \o base ELSE base
    IN  b \o TokenSegment

\* mutant: the next refresh scheduled from the period seen before, not the response's
ThenHandlerStalePeriod(s, auth) ==
    IF auth.isNull
    THEN [threw |-> TRUE, s |-> s]
    ELSE LET s1 == [s EXCEPT !.accessToken = auth.token]
         IN  [threw |-> FALSE,
              s |-> IF lastPeriod.t = "number" /\ lastPeriod.v # 0
                    THEN [s1 EXCEPT !.timers =
                             Append(@, [by |-> "then", delay |-> lastPeriod.v * 1000])]
                    ELSE s1]

\* .then( auth => { ... } ): `auth.token` throws on a null body before anything is assigned
ThenHandler(s, auth) ==
    IF auth.isNull
    THEN [threw |-> TRUE, s |-> s]
    ELSE LET s1 == [s EXCEPT !.accessToken = auth.token]
             refreshPeriod == auth.tokenRefreshPeriod
         IN  [threw |-> FALSE,
              s |-> IF Truthy(refreshPeriod)
                    THEN [s1 EXCEPT !.timers = setTimeout(@, "then", PeriodMs(refreshPeriod))]
                    ELSE s1]

\* mutant: the held token is dropped when a refresh fails
CatchHandlerDropsToken(s, error) ==
    [s EXCEPT !.accessToken = "", !.timers = Append(@, [by |-> "catch", delay |-> 30000])]

\* mutant: status 0 taken to mean "logged out": the loop is not rearmed
CatchHandlerStopsOnZero(s, error) ==
    IF error.status = [t |-> "number", v |-> 0]
    THEN s
    ELSE [s EXCEPT !.timers = Append(@, [by |-> "catch", delay |-> 30000])]

\* mutant: the retry delay grows with the number of consecutive failures
CatchHandlerBackoff(s, error) ==
    [s EXCEPT !.timers = Append(@, [by |-> "catch", delay |-> 30000 * (fails + 1)])]

\* mutant: status 0 taken to mean "logged out": the authenticated state is cleared
CatchHandlerLogoutOnZero(s, error) ==
    LET s1 == IF error.status = [t |-> "number", v |-> 0]
              THEN [s EXCEPT !.authenticated = FALSE, !.authenticatedUser = "null"]
              ELSE s
    IN  [s1 EXCEPT !.timers = Append(@, [by |-> "catch", delay |-> 30000])]

\* .catch( error => { ... } ): the status-0 branch is empty
CatchHandler(s, error) ==
    LET s1 == IF error.status = Num(0) THEN s ELSE s
    IN  [s1 EXCEPT !.timers = setTimeout(@, "catch", RetrySeconds * MsPerSecond)]

\* mutant: the retry handler chained so that it runs after every attempt
PromiseChainFinally(s, resp) ==
    IF resp.ok
    THEN CatchHandler(ThenHandler(s, resp.body).s, TypeError)
    ELSE CatchHandler(s, resp.error)

\* mutant: .then(onSuccess, onFailure), where a throw in onSuccess is caught by nobody
PromiseChainTwoArg(s, resp) ==
    IF resp.ok
    THEN ThenHandler(s, resp.body).s
    ELSE CatchHandler(s, resp.error)

\* the chain .then(...).catch(...): a throw in the then handler is caught by the catch handler
PromiseChain(s, resp) ==
    IF resp.ok
    THEN LET r == ThenHandler(s, resp.body)
         IN  IF r.threw THEN CatchHandler(r.s, TypeError) ELSE r.s
    ELSE CatchHandler(s, resp.error)

\* how a completed refresh ended, with the response that ended it
Outcome(resp) ==
    [kind |-> IF ~resp.ok THEN "failure"
              ELSE IF resp.body.isNull THEN "thrown"
              ELSE "success",
     resp |-> resp]

Responses ==
    { [ok |-> TRUE, body |-> b, error |-> TypeError] : b \in Bodies } \cup
    { [ok |-> FALSE, body |-> NullBody, error |-> HttpError(st)] : st \in ErrorStatuses }

NoResponse == [ok |-> FALSE, body |-> NullBody, error |-> TypeError]

NoEvent == [kind |-> "none", resp |-> NoResponse]

\* history counters: stop at the bound, or (sat) stay at it
Count(n, sat) == IF sat /\ n >= MaxFired THEN n ELSE n + 1

Store(s) ==
    /\ accessToken' = s.accessToken
    /\ authenticated' = s.authenticated
    /\ authenticatedUser' = s.authenticatedUser
    /\ timers' = s.timers

(***************************************************************************)
(* Initial state: the state right after construction                       *)
(***************************************************************************)
Init ==
    \E cfg \in Configs, b \in Bases :
        /\ config = cfg
        /\ accessToken = Constructor(cfg).accessToken
        /\ authenticated = Constructor(cfg).authenticated
        /\ authenticatedUser = Constructor(cfg).authenticatedUser
        /\ timers = Constructor(cfg).timers
        /\ requests = <<>>
        /\ docBase = b
        /\ href = StartPage
        /\ lastCall = NoCall
        /\ fired = 0
        /\ issued = 0
        /\ fails = 0
        /\ lastPeriod = cfg.authRefreshPeriod
        /\ lastEvent = NoEvent

(***************************************************************************)
(* Actions                                                                 *)
(***************************************************************************)
\* mutant: refreshToken() arms the retry timer as it issues the GET
TimerFiresRearms(sat) ==
    \E i \in 1..Len(timers) :
        /\ sat \/ fired < MaxFired
        /\ timers' = Append(RemoveAt(timers, i), [by |-> "refreshToken", delay |-> 30000])
        /\ requests' = Append(requests, [url |-> RefreshUrl(docBase, Origin)])
        /\ fired' = Count(fired, sat)
        /\ issued' = Count(issued, sat)
        /\ UNCHANGED <<config, accessToken, authenticated, authenticatedUser,
                       docBase, href, lastCall, fails, lastPeriod, lastEvent>>

\* mutant: the held token is cleared while its replacement is being fetched
TimerFiresClearsToken(sat) ==
    \E i \in 1..Len(timers) :
        /\ sat \/ fired < MaxFired
        /\ timers' = RemoveAt(timers, i)
        /\ requests' = Append(requests, [url |-> RefreshUrl(docBase, Origin)])
        /\ accessToken' = ""
        /\ fired' = Count(fired, sat)
        /\ issued' = Count(issued, sat)
        /\ UNCHANGED <<config, authenticated, authenticatedUser,
                       docBase, href, lastCall, fails, lastPeriod, lastEvent>>

\* mutant: the url worked out once, for the base "/s/", and used for every refresh
TimerFiresCachedUrl(sat) ==
    \E i \in 1..Len(timers) :
        /\ sat \/ fired < MaxFired
        /\ timers' = RemoveAt(timers, i)
        /\ requests' = Append(requests, [url |-> RefreshUrl(<<"/", "s", "/">>, Origin)])
        /\ fired' = Count(fired, sat)
        /\ issued' = Count(issued, sat)
        /\ UNCHANGED <<config, accessToken, authenticated, authenticatedUser,
                       docBase, href, lastCall, fails, lastPeriod, lastEvent>>

\* a pending timer fires and its callback runs refreshToken() up to the http.get
TimerFires(sat) ==
    \E i \in 1..Len(timers) :
        /\ sat \/ fired < MaxFired
        /\ timers' = RemoveAt(timers, i)
        /\ requests' = Append(requests, [url |-> RefreshUrl(docBase, Origin)])
        /\ fired' = Count(fired, sat)
        /\ issued' = Count(issued, sat)
        /\ UNCHANGED <<config, accessToken, authenticated, authenticatedUser,
                       docBase, href, lastCall, fails, lastPeriod, lastEvent>>

\* mutant: a failed refresh is retried at once, by a direct call of refreshToken()
RefreshFailsRetriesNow(sat) ==
    \E i \in 1..Len(requests), resp \in Responses :
        /\ ~resp.ok
        /\ sat \/ issued < MaxFired
        /\ requests' = Append(RemoveAt(requests, i), [url |-> RefreshUrl(docBase, Origin)])
        /\ issued' = Count(issued, sat)
        /\ lastEvent' = Outcome(resp)
        /\ fails' = Count(fails, sat)
        /\ UNCHANGED <<config, accessToken, authenticated, authenticatedUser, timers,
                       docBase, href, lastCall, fired, lastPeriod>>

\* an in-flight GET completes with `resp` and the promise chain runs
Complete(i, resp, sat) ==
    /\ requests' = RemoveAt(requests, i)
    /\ Store(PromiseChain(Service, resp))
    /\ lastEvent' = Outcome(resp)
    /\ fails' = IF Outcome(resp).kind = "success" THEN 0 ELSE Count(fails, sat)
    /\ lastPeriod' = IF Outcome(resp).kind = "success"
                     THEN resp.body.tokenRefreshPeriod ELSE lastPeriod
    /\ UNCHANGED <<config, docBase, href, lastCall, fired, issued>>

RefreshSucceeds(sat) ==
    \E i \in 1..Len(requests), resp \in Responses :
        /\ resp.ok
        /\ Complete(i, resp, sat)

RefreshFails(sat) ==
    \E i \in 1..Len(requests), resp \in Responses :
        /\ ~resp.ok
        /\ Complete(i, resp, sat)

\* the page's <base href> changes
SetBase ==
    \E b \in Bases :
        /\ b # docBase
        /\ docBase' = b
        /\ UNCHANGED <<config, accessToken, authenticated, authenticatedUser, timers,
                       requests, href, lastCall, fired, issued, fails, lastPeriod,
                       lastEvent>>

(***************************************************************************)
(* Public operations                                                       *)
(***************************************************************************)
\* getAuthenticationSecret()
getAuthenticationSecret == accessToken

\* getAuthenticatedUserNow()
getAuthenticatedUserNow == authenticatedUser

\* mutant: the header built from the token the service was constructed with
injectAuthHeadersSnapshot(headers) ==
    [k \in DOMAIN headers \cup {"Authorization"} |->
        IF k = "Authorization" THEN "bearer " \o config.authToken ELSE headers[k]]

\* injectAuthHeaders(headers): the map after headers["Authorization"] = authHeader
injectAuthHeaders(headers) ==
    LET authHeader == "bearer " \o accessToken
    IN  [k \in DOMAIN headers \cup {"Authorization"} |->
            IF k = "Authorization" THEN authHeader ELSE headers[k]]

\* a public operation that touches nothing but what the caller gets back
Returns(call) ==
    /\ lastCall' = call
    /\ UNCHANGED <<config, accessToken, authenticated, authenticatedUser, timers,
                   requests, docBase, href, fired, issued, fails, lastPeriod, lastEvent>>

\* mutant: a login as the user already signed in, with a credential, is let through
LoginAcceptsKnownUser ==
    \E user \in LoginUsers, credential \in LoginCredentials :
        Returns([NoCall EXCEPT !.op = "login", !.arg = user \o ":" \o credential,
                               !.threw = ~(user = authenticatedUser /\ credential # ""),
                               !.value = IF user = authenticatedUser /\ credential # ""
                                         THEN user ELSE "Not supported."])

\* login(user, credential): throws
Login ==
    \E user \in LoginUsers, credential \in LoginCredentials :
        Returns([NoCall EXCEPT !.op = "login", !.arg = user \o ":" \o credential,
                               !.threw = TRUE,
                               !.value = "Not supported."])

\* mutant: logout() also clears what the service holds about the session
LogoutClearsState ==
    /\ href' = config.logoutUrl
    /\ lastCall' = [NoCall EXCEPT !.op = "logout"]
    /\ authenticated' = FALSE
    /\ authenticatedUser' = "null"
    /\ UNCHANGED <<config, accessToken, timers,
                   requests, docBase, fired, issued, fails, lastPeriod, lastEvent>>

\* mutant: logout() also cancels the pending refresh
LogoutCancels ==
    /\ href' = config.logoutUrl
    /\ lastCall' = [NoCall EXCEPT !.op = "logout"]
    /\ timers' = <<>>
    /\ UNCHANGED <<config, accessToken, authenticated, authenticatedUser,
                   requests, docBase, fired, issued, fails, lastPeriod, lastEvent>>

\* logout(): window.location.href = this.config.logoutUrl()
Logout ==
    /\ href' = config.logoutUrl
    /\ lastCall' = [NoCall EXCEPT !.op = "logout"]
    /\ UNCHANGED <<config, accessToken, authenticated, authenticatedUser, timers,
                   requests, docBase, fired, issued, fails, lastPeriod, lastEvent>>

InjectAuthHeaders ==
    \E h \in HeaderMaps :
        Returns([NoCall EXCEPT !.op = "injectAuthHeaders",
                               !.given = h,
                               !.headers = injectAuthHeaders(h)])

GetAuthenticationSecret ==
    Returns([NoCall EXCEPT !.op = "getAuthenticationSecret",
                           !.value = getAuthenticationSecret])

GetAuthenticatedUserNow ==
    Returns([NoCall EXCEPT !.op = "getAuthenticatedUserNow",
                           !.value = getAuthenticatedUserNow])

\* isAuthenticated(): a new subscriber is handed the subject's current value at once
IsAuthenticated ==
    Returns([NoCall EXCEPT !.op = "isAuthenticated", !.emitted = authenticated])

\* getAuthenticatedUser(): likewise, for the user
GetAuthenticatedUser ==
    Returns([NoCall EXCEPT !.op = "getAuthenticatedUser", !.value = authenticatedUser])

Next ==
    \/ TimerFires(FALSE)
    \/ RefreshSucceeds(FALSE)
    \/ RefreshFails(FALSE)
    \/ SetBase
    \/ Login
    \/ Logout
    \/ InjectAuthHeaders
    \/ GetAuthenticationSecret
    \/ GetAuthenticatedUserNow
    \/ IsAuthenticated
    \/ GetAuthenticatedUser

\* the same steps with the history counters staying at their bound, so that the
\* loop can run forever in a finite state space
NextLive ==
    \/ TimerFires(TRUE)
    \/ RefreshSucceeds(TRUE)
    \/ RefreshFails(TRUE)
    \/ SetBase
    \/ Login
    \/ Logout
    \/ InjectAuthHeaders
    \/ GetAuthenticationSecret
    \/ GetAuthenticatedUserNow
    \/ IsAuthenticated
    \/ GetAuthenticatedUser

\* the browser runs every armed timer, and every GET ends in a response or an error
Fairness ==
    /\ WF_vars(TimerFires(TRUE))
    /\ WF_vars(RefreshSucceeds(TRUE) \/ RefreshFails(TRUE))

LiveSpec == Init /\ [][NextLive]_vars /\ Fairness

Spec == Init /\ [][Next]_vars

(***************************************************************************)
(* Properties                                                              *)
(***************************************************************************)
\* a step in which an in-flight GET completes and its promise chain runs
CompletionStep == Len(requests') < Len(requests)

FailureStep == CompletionStep /\ lastEvent'.kind = "failure"

SuccessStep == CompletionStep /\ lastEvent'.kind = "success"

\* a step that hands a new callback to setTimeout
ArmStep ==
    \/ Len(timers') > Len(timers)
    \/ Len(timers') = Len(timers) /\ timers' # timers

Positive(p) == p.t = "number" /\ p.v > 0

\* C1: in every reachable state at most one refresh timer is pending.
C1_AtMostOneTimer == Len(timers) <= 1

\* a timer is pending again after two refresh attempts, the last one failed
C1_Witness ==
    /\ Len(timers) = 1
    /\ fired >= 2
    /\ lastEvent.kind = "failure"
    /\ lastCall.op = "logout"

\* C2: refresh attempts never overlap: at most one GET is in flight, no timer is
\* pending while a GET is in flight, and a timer is armed only in the step in
\* which the one in-flight GET completes.
C2_Sequential ==
    /\ [](Len(requests) <= 1 /\ (Len(requests) = 1 => Len(timers) = 0))
    /\ [][ArmStep => (Len(requests) = 1 /\ requests' = <<>> /\ Len(timers') = 1
                      /\ timers'[1].by \in {"then", "catch"})]_vars

\* a second GET is in flight after the first one completed and rearmed the timer
C2_Witness ==
    /\ Len(requests) = 1
    /\ timers = <<>>
    /\ issued = 2
    /\ lastEvent.kind = "success"

\* C3: a failing refresh (status 0, 404 or 500) leaves the held token unchanged
\* and arms exactly one timer, whose delay is 30000 ms.
C3_FailureRetries ==
    [][FailureStep =>
        /\ accessToken' = accessToken
        /\ Len(timers') = Len(timers) + 1
        /\ timers' = <<[by |-> "catch", delay |-> 30000]>>]_vars

\* a refreshed token survived a later HTTP 500, and the 30 s retry is pending
C3_Witness ==
    /\ lastEvent.kind = "failure"
    /\ lastEvent.resp.error.status = Num(500)
    /\ accessToken = "xyz"
    /\ timers = <<[by |-> "catch", delay |-> 30000]>>
    /\ requests = <<>>

\* C4: a successful refresh whose response carries token T and a positive
\* tokenRefreshPeriod P makes getAuthenticationSecret() return T from then on
\* (until the next refresh completes) and arms exactly one timer, of P * 1000 ms,
\* whatever period was in force before.
C4_SuccessRearms ==
    /\ [](lastEvent.kind = "success"
            => getAuthenticationSecret = lastEvent.resp.body.token)
    /\ [][(SuccessStep /\ Positive(lastEvent'.resp.body.tokenRefreshPeriod)) =>
            timers' = <<[by |-> "then",
                         delay |-> lastEvent'.resp.body.tokenRefreshPeriod.v * 1000]>>]_vars

\* constructed with a period of 30 s, the first refresh answered {xyz, 60}:
\* the token is xyz and the one pending timer is of 60 s
C4_Witness ==
    /\ config.authRefreshPeriod = Num(30)
    /\ fired = 1
    /\ lastEvent.kind = "success"
    /\ lastEvent.resp.body = [isNull |-> FALSE, token |-> "xyz", tokenRefreshPeriod |-> Num(60)]
    /\ getAuthenticationSecret = "xyz"
    /\ timers = <<[by |-> "then", delay |-> 60000]>>

\* the loop has halted: the last refresh succeeded with a period of 0 or none
Halted ==
    /\ lastEvent.kind = "success"
    /\ lastEvent.resp.body.tokenRefreshPeriod \in {Num(0), Undefined}

\* C5: a successful refresh with tokenRefreshPeriod 0 or absent stores the
\* response's token and arms no timer; from then on no GET is issued and the
\* token never changes.
C5_FalsyPeriodHalts ==
    /\ [](Halted => /\ accessToken = lastEvent.resp.body.token
                    /\ timers = <<>>
                    /\ requests = <<>>)
    /\ [][Halted => /\ Halted'
                    /\ lastEvent' = lastEvent
                    /\ issued' = issued
                    /\ fired' = fired
                    /\ accessToken' = accessToken]_vars

\* the second refresh answered {t2, 0}; the token is t2 and nothing is pending
C5_Witness ==
    /\ Halted
    /\ lastEvent.resp.body.tokenRefreshPeriod = Num(0)
    /\ accessToken = "t2"
    /\ issued = 2
    /\ timers = <<>>
    /\ lastCall.op = "getAuthenticationSecret"
    /\ lastCall.value = "t2"

\* C6: after construction with a positive period P exactly one timer of
\* P * 1000 ms is pending and no GET has been issued; after construction with a
\* period of 0 or none no timer is pending, and no GET is ever issued.
C6_Construction ==
    /\ (Positive(config.authRefreshPeriod) /\ fired = 0) =>
          /\ timers = <<[by |-> "constructor",
                         delay |-> config.authRefreshPeriod.v * 1000]>>
          /\ requests = <<>>
          /\ issued = 0
    /\ config.authRefreshPeriod \in {Num(0), Undefined} =>
          /\ timers = <<>>
          /\ requests = <<>>
          /\ issued = 0
          /\ fired = 0

\* constructed with a period of 60 s, read once: the 60 s timer is still pending
C6_Witness ==
    /\ config.authRefreshPeriod = Num(60)
    /\ fired = 0
    /\ timers = <<[by |-> "constructor", delay |-> 60000]>>
    /\ lastCall.op = "getAuthenticationSecret"

\* C7: a refresh timer is scheduled, at construction and after a successful
\* refresh, if and only if the period is a strictly positive number (negative
\* periods included among those that schedule nothing).
C7_PositiveOnly ==
    /\ fired = 0 => (timers # <<>> <=> Positive(config.authRefreshPeriod))
    /\ (lastEvent.kind = "success" /\ requests = <<>>) =>
          (timers # <<>> <=> Positive(lastEvent.resp.body.tokenRefreshPeriod))

\* C8: the loop stops only on a falsy period: whenever no timer is pending and
\* no GET is in flight, the period seen last (the initial one, or that of the
\* last successful response) is 0 or absent; and, timers firing and GETs
\* completing, as long as every period seen is positive a GET is in flight
\* again and again.
C8_NoOtherTerminalState ==
    /\ []((timers = <<>> /\ requests = <<>>) => lastPeriod \in {Num(0), Undefined})
    /\ ([]Positive(lastPeriod) => []<>(requests # <<>>))

\* the loop ran MaxFired times without halting and a timer is pending again
C8_Witness ==
    /\ fired = MaxFired
    /\ Positive(lastPeriod)
    /\ lastEvent.kind = "failure"
    /\ Len(timers) = 1
    /\ requests = <<>>

\* C9: after the k-th consecutive failed refresh, for every k, the retry timer
\* is pending and its delay is 30000 ms, as after the first.
C9_ConstantRetry ==
    \A k \in 1..MaxFired :
        (fails = k /\ requests = <<>>) => timers = <<[by |-> "catch", delay |-> 30000]>>

\* three refreshes failed in a row and the retry timer is of 30 s
C9_Witness ==
    /\ fails = 3
    /\ lastEvent.kind = "failure"
    /\ timers = <<[by |-> "catch", delay |-> 30000]>>
    /\ requests = <<>>

\* what a failed GET with `status` would leave from the current state
AfterFailure(status) ==
    PromiseChain(Service, [ok |-> FALSE, body |-> NullBody, error |-> HttpError(status)])

\* C10: a failing refresh with status 0 behaves as one with any other status:
\* every failure step, whatever its status, leaves the token, authenticated
\* flag, user and timers that a status-0 failure leaves from the same state, and
\* these are the old token, flag and user with the 30000 ms timer.
C10_StatusZeroAlike ==
    [][FailureStep =>
        /\ <<accessToken', authenticated', authenticatedUser', timers'>> =
             <<AfterFailure(0).accessToken, AfterFailure(0).authenticated,
               AfterFailure(0).authenticatedUser, AfterFailure(0).timers>>
        /\ \A st \in ErrorStatuses : AfterFailure(st) = AfterFailure(0)
        /\ <<accessToken', authenticated', authenticatedUser'>> =
             <<accessToken, authenticated, authenticatedUser>>
        /\ timers' = <<[by |-> "catch", delay |-> 30000]>>]_vars

\* a refresh failed with status 0: still authenticated, retry of 30 s pending
C10_Witness ==
    /\ lastEvent.kind = "failure"
    /\ lastEvent.resp.error.status = Num(0)
    /\ authenticated
    /\ authenticatedUser = "alice"
    /\ timers = <<[by |-> "catch", delay |-> 30000]>>

\* a step in which the public operation `op` is called
CallStep(op) == lastCall' # lastCall /\ lastCall'.op = op

\* C11: injectAuthHeaders(h) sets h["Authorization"] to "bearer " followed by
\* what getAuthenticationSecret() returns in the state of the call ("bearer abc"
\* as long as no refresh has happened), keeps every other header of h and
\* changes nothing of the service.
C11_InjectReadsCurrentToken ==
    [][CallStep("injectAuthHeaders") =>
        /\ DOMAIN lastCall'.headers = DOMAIN lastCall'.given \cup {"Authorization"}
        /\ lastCall'.headers["Authorization"] = "bearer " \o getAuthenticationSecret
        /\ issued = 0 => lastCall'.headers["Authorization"] = "bearer abc"
        /\ \A k \in DOMAIN lastCall'.given \ {"Authorization"} :
              lastCall'.headers[k] = lastCall'.given[k]
        /\ UNCHANGED <<config, accessToken, authenticated, authenticatedUser, timers,
                       requests, docBase, href>>]_vars

\* after a refresh to xyz and a failed one, a map holding a stale header comes
\* back with "bearer xyz" and its Accept header
C11_Witness ==
    /\ lastCall.op = "injectAuthHeaders"
    /\ DOMAIN lastCall.given = {"Accept", "Authorization"}
    /\ lastCall.given["Authorization"] = "bearer stale"
    /\ lastCall.headers["Authorization"] = "bearer xyz"
    /\ lastCall.headers["Accept"] = "application/json"
    /\ accessToken = "xyz"
    /\ lastEvent.kind = "failure"

\* the public operations that read the service
ReadOps ==
    {"getAuthenticationSecret", "getAuthenticatedUserNow", "getAuthenticatedUser",
     "isAuthenticated", "injectAuthHeaders"}

\* C12: the held token is the initial token until a refresh succeeds, and it
\* changes only in the step in which a refresh succeeds, to that response's
\* token; timer firings, failed refreshes, login, logout and the read operations
\* keep it, and a read operation never throws: getAuthenticationSecret() returns
\* the held token whatever refreshes have failed.
C12_TokenOnlyBySuccess ==
    /\ [](issued = 0 => accessToken = config.authToken)
    /\ [][accessToken' # accessToken => SuccessStep]_vars
    /\ [][SuccessStep => accessToken' = lastEvent'.resp.body.token]_vars
    /\ [][(\E op \in ReadOps : CallStep(op)) => ~lastCall'.threw]_vars
    /\ [][CallStep("getAuthenticationSecret") => lastCall'.value = accessToken]_vars

\* refreshed to xyz, then two failed refreshes: getAuthenticationSecret() gives xyz
C12_Witness ==
    /\ lastCall.op = "getAuthenticationSecret"
    /\ lastCall.value = "xyz"
    /\ ~lastCall.threw
    /\ accessToken = "xyz"
    /\ fails = 2
    /\ lastEvent.kind = "failure"

\* C13: the authenticated flag and the user are those set at construction in
\* every reachable state: isAuthenticated() hands true to a new subscriber and
\* getAuthenticatedUserNow() returns the construction-time user, after any
\* refresh successes and failures (status 0 included), logins and logouts.
C13_AuthStateFixed ==
    /\ authenticated = TRUE
    /\ authenticatedUser = config.user
    /\ lastCall.op = "isAuthenticated" => lastCall.emitted = TRUE
    /\ lastCall.op = "getAuthenticatedUserNow" => lastCall.value = config.user
    /\ lastCall.op = "getAuthenticatedUser" => lastCall.value = config.user

\* logged out, then a refresh succeeded and the next failed with status 0: a new
\* subscriber of isAuthenticated() is still handed true
C13_Witness ==
    /\ lastCall.op = "isAuthenticated"
    /\ lastCall.emitted
    /\ href = config.logoutUrl
    /\ accessToken = "xyz"
    /\ lastEvent.kind = "failure"
    /\ lastEvent.resp.error.status = Num(0)
    /\ getAuthenticatedUserNow = "alice"

\* C14: login(user, credential) throws "Not supported." for every user and
\* credential, in every state, and leaves the token, the authenticated flag, the
\* user, the pending timer and the in-flight GET as they were.
C14_LoginUnsupported ==
    /\ [](lastCall.op = "login" => (lastCall.threw /\ lastCall.value = "Not supported."))
    /\ [][CallStep("login") =>
            UNCHANGED <<config, accessToken, authenticated, authenticatedUser, timers,
                        requests, docBase, href>>]_vars
    /\ [](\A user \in LoginUsers, credential \in LoginCredentials :
            ENABLED (lastCall' = [NoCall EXCEPT !.op = "login",
                                                !.arg = user \o ":" \o credential,
                                                !.threw = TRUE,
                                                !.value = "Not supported."]
                     /\ Login))

\* the signed-in user's own name and a credential, tried while a GET is in
\* flight: login throws and the GET is still in flight
C14_Witness ==
    /\ lastCall.op = "login"
    /\ lastCall.arg = "alice:secret"
    /\ lastCall.threw
    /\ Len(requests) = 1
    /\ issued = 2

\* C15: logout() only sets the navigation target to the configured logout url:
\* the token, the authenticated flag, the user, the pending timer and the
\* in-flight GET are as before, and a timer pending after logout still fires and
\* issues its GET.
C15_LogoutClearsNothing ==
    /\ [][CallStep("logout") =>
            /\ href' = config.logoutUrl
            /\ UNCHANGED <<config, accessToken, authenticated, authenticatedUser,
                           timers, requests, docBase>>]_vars
    /\ (lastCall.op = "logout" /\ timers # <<>>) ~> (requests # <<>>)

\* logout() was called on a refreshed service and a GET is in flight afterwards
C15_Witness ==
    /\ lastCall.op = "logout"
    /\ href = "/logout"
    /\ accessToken = "t2"
    /\ authenticated
    /\ Len(requests) = 1
    /\ issued = 2

\* a step in which a GET is issued
IssueStep == Len(requests') > Len(requests)

\* C16: the url of every refresh is computed from the document base of the
\* moment the timer fires: origin + base + "token" when the base starts with
\* "/", base + "token" otherwise; a base changed since the last refresh is the
\* one the next request uses.
C16_UrlRecomputed ==
    [][IssueStep =>
        requests'[Len(requests')].url =
            IF Head(docBase) = "/"
            THEN <<"h", ":", "o">> \o docBase \o <<"t", "o", "k", "e", "n">>
            ELSE docBase \o <<"t", "o", "k", "e", "n">>]_vars

\* the second refresh goes to the absolute base h:x/ with "token" appended
C16_Witness ==
    /\ issued = 2
    /\ docBase = <<"h", ":", "x", "/">>
    /\ requests = <<[url |-> <<"h", ":", "x", "/", "t", "o", "k", "e", "n">>]>>
    /\ lastEvent.kind = "success"

\* a step in which a GET completes with a null body and the then handler throws
ThrownStep == CompletionStep /\ lastEvent'.kind = "thrown"

\* C17: a GET that succeeds with a null body is handled as a failure: the
\* TypeError of the then handler reaches the catch handler, the held token is
\* unchanged and exactly one timer, of 30000 ms, is pending afterwards.
C17_NullBodyRetries ==
    [][ThrownStep =>
        /\ accessToken' = accessToken
        /\ authenticated' = authenticated
        /\ authenticatedUser' = authenticatedUser
        /\ Len(timers') = Len(timers) + 1
        /\ timers' = <<[by |-> "catch", delay |-> 30000]>>]_vars

\* refreshed to xyz, then a response without a body: xyz is kept, retry in 30 s
C17_Witness ==
    /\ lastEvent.kind = "thrown"
    /\ lastEvent.resp.ok
    /\ lastEvent.resp.body.isNull
    /\ accessToken = "xyz"
    /\ fails = 1
    /\ timers = <<[by |-> "catch", delay |-> 30000]>>
    /\ requests = <<>>

\* C18: GETs are issued by timer firings only, one per firing: none at
\* construction, none by a public operation, and the number of GETs issued
\* equals the number of timers fired in every reachable state.
C18_OneGetPerFiring ==
    /\ [](issued = fired)
    /\ []((fired = 0) => requests = <<>>)
    /\ [][IssueStep =>
            /\ Len(timers') = Len(timers) - 1
            /\ Len(requests') = Len(requests) + 1
            /\ fired' = fired + 1
            /\ issued' = issued + 1
            /\ lastCall' = lastCall]_vars
    /\ [][(\E op \in ReadOps \cup {"login", "logout"} : CallStep(op)) =>
            (requests' = requests /\ issued' = issued)]_vars

\* three timers fired and three GETs were issued, the third still in flight
C18_Witness ==
    /\ fired = 3
    /\ issued = 3
    /\ Len(requests) = 1
    /\ timers = <<>>
    /\ lastEvent.kind = "thrown"

====
